---- MODULE Spec2Model ----
(***************************************************************************)
(* Model of ddtrace/opentracer/span.py: the opentracing Span adapter, its  *)
(* SpanLog, and the Datadog span and SpanContext objects it drives.        *)
(*                                                                         *)
(* Python values are represented by strings ("None" is None, "1" is the   *)
(* integer 1 stored in a tag); times are integers and NoTime is a missing  *)
(* (None) time argument.                                                   *)
(***************************************************************************)
EXTENDS Integers, Sequences, FiniteSets, TLC

(* ------------------------------ bounds -------------------------------- *)
\* calls made on the Span by its single caller (Spec)
MaxOps == 3
\* calls made on the Span by its single caller (KvSpec)
MaxKvOps == 2
\* threads that each call set_baggage_item once (ConcSpec)
NThreads == 2

(* ----------------------------- constants ------------------------------ *)
None == "None"
One == "1"
NoTime == -1
\* the reading time.time() gives
TimeNow == 7

SPAN_TYPE == "span.kind"
HTTP_URL == "http.url"
DB_STATEMENT == "db.statement"
ERROR_TYPE == "error.type"
ERROR_MSG == "error.msg"
ERROR_STACK == "error.stack"

(* ------------------------------ inputs -------------------------------- *)
Keys == {SPAN_TYPE, HTTP_URL, DB_STATEMENT, "k1"}
ReadKeys == {HTTP_URL, "k1"}
Values == {"v1", "v2"}
Names == {"op2"}
FinishTimes == {NoTime, 0, 5}
Timestamps == {NoTime, 0, 3}
ExcInfos == {None, "E1"}
DdIds == {1, 2}
\* the Datadog span of the parent Span
ParentDd == 0
AllDd == DdIds \cup {ParentDd}
Threads == 1..NThreads
ThreadKeys == {"k1", "k2"}
ThreadFinishTimes == {NoTime, 5}

\* a dict as a function on its key set
EmptyDict == [k \in {} |-> None]
Put(d, key, value) == [k \in DOMAIN d \cup {key} |-> IF k = key THEN value ELSE d[k]]
Get(d, key) == IF key \in DOMAIN d THEN d[key] ELSE None

\* the key/value mappings passed to log_kv: at most two pairs
LogKeys == {"event", "error", "error.object", "message", "stack", "other"}
LogValuesOf(k) == IF k = "event" THEN {"error", "v1"}
                  ELSE IF k = "error.object" THEN {"v2"} ELSE {"v1"}
KeyValues == UNION {{kv \in [D -> {"error", "v1", "v2"}] : \A k \in D : kv[k] \in LogValuesOf(k)} :
                    D \in {S \in SUBSET LogKeys : Cardinality(S) <= 2}}
\* the orders in which a dict's items() may be visited
Orders(S) == {s \in [1..Cardinality(S) -> S] : \A i, j \in 1..Cardinality(S) : i # j => s[i] # s[j]}

\* the few mappings Spec passes to log_kv
FewKeyValues == {kv \in KeyValues : DOMAIN kv \in {{"event"}, {"other"}} \/ kv = EmptyDict}

\* keys a SpanLog is indexed with: <<type, value>>
IndexKeys == {<<"int", i>> : i \in -3..3} \cup {<<"str", 0>>, <<"bool", 1>>}

VARIABLES
  finished,   \* Span.finished
  dd_span,    \* Span._dd_span: the id of the Datadog span it is bound to
  context,    \* Span._context: the address in ctxs of its current SpanContext
  log,        \* Span.log.records
  ctxs,       \* every SpanContext object constructed so far
  dd,         \* the Datadog spans
  result,     \* what the last call returned or raised
  lastOp,     \* the last call made on the Span and its arguments
  calls,      \* number of calls made by the sequential caller
  parent_context, \* the parent Span's _context (an address in ctxs), 0 without a parent
  pc,         \* where each thread is in its call
  arg,        \* each thread's call: <<method, arguments>>
  read_ctx,   \* each thread's read of self.context (an address in ctxs)
  new_ctx,    \* each thread's new_ctx (an address in ctxs)
  ret,        \* what each thread's get_baggage_item returned
  lock        \* Span.lock: 0 when free, else the thread holding it

vars == <<finished, dd_span, context, log, ctxs, dd, result, lastOp, calls, parent_context, pc, arg, read_ctx, new_ctx, ret, lock>>
spanVars == <<finished, dd_span, context, log, ctxs, dd>>
threadVars == <<pc, arg, read_ctx, new_ctx, ret, lock>>
callerVars == <<result, lastOp, calls, parent_context>>

(* ------------------------- the Datadog span --------------------------- *)
DatadogSpan(name, ddctx) ==
  [name |-> name, span_type |-> None, resource |-> None, error |-> 0,
   meta |-> EmptyDict, exc_info |-> None, finished |-> FALSE,
   finish_calls |-> <<>>, exits |-> 0, seen |-> <<>>, context |-> ddctx]

DdSetTag(s, key, value) == [s EXCEPT !.meta = Put(@, key, value)]
DdGetTag(s, key) == Get(s.meta, key)
\* seen is the order in which set_exc_info, __exit__ and finish were called on the span
DdFinish(s, finish_time) ==
  [s EXCEPT !.finish_calls = Append(@, finish_time), !.finished = TRUE,
            !.seen = Append(@, "finish")]
DdSetExcInfo(s, exc) == [s EXCEPT !.exc_info = exc, !.seen = Append(@, "set_exc_info")]
\* the Datadog span's own __exit__ finishes it
DdExit(s, exc) == [s EXCEPT !.exits = @ + 1, !.finished = TRUE, !.seen = Append(@, "__exit__")]

(* ---------------------------- SpanContext ----------------------------- *)
SpanContext(ddcontext, baggage) == [dd_context |-> ddcontext, baggage |-> baggage]
with_baggage_item(c, key, value) == SpanContext(c.dd_context, Put(c.baggage, key, value))
ctx_get_baggage_item(c, key) == Get(c.baggage, key)

(* ------------------------------ SpanLog ------------------------------- *)
SpanLogRecord(key_values, timestamp) ==
  [record |-> key_values,
   timestamp |-> IF timestamp = NoTime \/ timestamp = 0 THEN TimeNow ELSE timestamp]
\* SpanLog.add_record inserting at the front
add_record_Front(records, key_values, timestamp) == <<SpanLogRecord(key_values, timestamp)>> \o records
\* lines 30-31
add_record(records, key_values, timestamp) == Append(records, SpanLogRecord(key_values, timestamp))

(* -------------------------------- Span -------------------------------- *)
\* Span.__init__: with a parent context (baggage pb) or without one
ParentBaggages == {EmptyDict, Put(EmptyDict, "k1", "v1")}

\* Span.__init__ that does not pass the parent's baggage on
Init_DropsBaggage ==
  /\ finished = FALSE
  /\ dd_span = 1
  /\ log = <<>>
  /\ \/ /\ ctxs = <<SpanContext(1, EmptyDict)>>
        /\ context = 1
        /\ parent_context = 0
        /\ dd = [d \in AllDd |-> DatadogSpan("op1", d)]
     \/ \E pb \in ParentBaggages :
          /\ ctxs = <<SpanContext(0, pb), SpanContext(0, EmptyDict)>>
          /\ context = 2
          /\ parent_context = 1
          /\ dd = [d \in AllDd |-> DatadogSpan("op1", IF d = 1 THEN 0 ELSE d)]
  /\ result = <<"ok", None>>
  /\ lastOp = <<"__init__">>
  /\ calls = 0
  /\ pc = [t \in Threads |-> "idle"]
  /\ arg = [t \in Threads |-> <<None>>]
  /\ read_ctx = [t \in Threads |-> 0]
  /\ new_ctx = [t \in Threads |-> 0]
  /\ ret = [t \in Threads |-> None]
  /\ lock = 0

\* lines 47-60
Init ==
  /\ finished = FALSE
  /\ dd_span = 1
  /\ log = <<>>
  /\ \/ /\ ctxs = <<SpanContext(1, EmptyDict)>>
        /\ context = 1
        /\ parent_context = 0
        /\ dd = [d \in AllDd |-> DatadogSpan("op1", d)]
     \/ \E pb \in ParentBaggages :
          /\ ctxs = <<SpanContext(0, pb), SpanContext(0, pb)>>
          /\ context = 2
          /\ parent_context = 1
          /\ dd = [d \in AllDd |-> DatadogSpan("op1", IF d = 1 THEN 0 ELSE d)]
  /\ result = <<"ok", None>>
  /\ lastOp = <<"__init__">>
  /\ calls = 0
  /\ pc = [t \in Threads |-> "idle"]
  /\ arg = [t \in Threads |-> <<None>>]
  /\ read_ctx = [t \in Threads |-> 0]
  /\ new_ctx = [t \in Threads |-> 0]
  /\ ret = [t \in Threads |-> None]
  /\ lock = 0

Called(op) ==
  /\ calls < MaxOps
  /\ calls' = calls + 1
  /\ lastOp' = op
  /\ UNCHANGED <<parent_context, threadVars>>

\* Span.finish without its check of the finished flag
FinishDd_NoGuard(ddmap, fin, dspan, finish_time) ==
  [ddmap EXCEPT ![dspan] = DdFinish(@, finish_time)]

\* lines 71-76: the Datadog spans and the finished flag after Span.finish
FinishDd(ddmap, fin, dspan, finish_time) ==
  IF fin THEN ddmap ELSE [ddmap EXCEPT ![dspan] = DdFinish(@, finish_time)]

finish(finish_time) ==
  /\ Called(<<"finish", finish_time>>)
  /\ result' = <<"ok", None>>
  /\ dd' = FinishDd(dd, finished, dd_span, finish_time)
  /\ finished' = TRUE
  /\ UNCHANGED <<dd_span, context, log, ctxs>>

\* Span.set_tag that also keeps a reserved key as a generic tag
SetTagOn_AlsoTag(s, key, value) ==
  IF key = SPAN_TYPE THEN DdSetTag([s EXCEPT !.span_type = value], key, value)
  ELSE IF key = HTTP_URL \/ key = DB_STATEMENT THEN DdSetTag([s EXCEPT !.resource = value], key, value)
  ELSE DdSetTag(s, key, value)

\* lines 155-161: Span.set_tag on the Datadog span s
SetTagOn(s, key, value) ==
  IF key = SPAN_TYPE THEN [s EXCEPT !.span_type = value]
  ELSE IF key = HTTP_URL \/ key = DB_STATEMENT THEN [s EXCEPT !.resource = value]
  ELSE DdSetTag(s, key, value)

set_tag(key, value) ==
  /\ Called(<<"set_tag", key, value>>)
  /\ result' = <<"ok", None>>
  /\ dd' = [dd EXCEPT ![dd_span] = SetTagOn(@, key, value)]
  /\ UNCHANGED <<finished, dd_span, context, log, ctxs>>

_get_tag(key) ==
  /\ Called(<<"_get_tag", key>>)
  /\ result' = <<"ok", DdGetTag(dd[dd_span], key)>>
  /\ UNCHANGED spanVars

set_operation_name(operation_name) ==
  /\ Called(<<"set_operation_name", operation_name>>)
  /\ result' = <<"ok", None>>
  /\ dd' = [dd EXCEPT ![dd_span].name = operation_name]
  /\ UNCHANGED <<finished, dd_span, context, log, ctxs>>

\* Span.set_baggage_item without the mirrored tag
set_baggage_item_NoTag(key, value) ==
  /\ Called(<<"set_baggage_item", key, value>>)
  /\ result' = <<"ok", "self">>
  /\ ctxs' = Append(ctxs, with_baggage_item(ctxs[context], key, value))
  /\ context' = Len(ctxs) + 1
  /\ UNCHANGED <<finished, dd_span, log, dd>>

\* Span.set_baggage_item writing the baggage of the current context in place
set_baggage_item_InPlace(key, value) ==
  /\ Called(<<"set_baggage_item", key, value>>)
  /\ result' = <<"ok", "self">>
  /\ ctxs' = [ctxs EXCEPT ![context] = with_baggage_item(@, key, value)]
  /\ dd' = [dd EXCEPT ![dd_span] = SetTagOn(@, key, value)]
  /\ UNCHANGED <<finished, dd_span, context, log>>

\* lines 92-96, one caller: the new context is built, the tag mirrored, the reference swapped
set_baggage_item(key, value) ==
  /\ Called(<<"set_baggage_item", key, value>>)
  /\ result' = <<"ok", "self">>
  /\ ctxs' = Append(ctxs, with_baggage_item(ctxs[context], key, value))
  /\ dd' = [dd EXCEPT ![dd_span] = SetTagOn(@, key, value)]
  /\ context' = Len(ctxs) + 1
  /\ UNCHANGED <<finished, dd_span, log>>

get_baggage_item(key) ==
  /\ Called(<<"get_baggage_item", key>>)
  /\ result' = <<"ok", ctx_get_baggage_item(ctxs[context], key)>>
  /\ UNCHANGED spanVars

\* the log_kv rules with every "event" pair marking the span as errored
LogKvPair_AnyEvent(s, key, val) ==
  IF key = "event" THEN SetTagOn([s EXCEPT !.error = 1], "error", One)
  ELSE IF key = "error" \/ key = "error.object" THEN SetTagOn(s, ERROR_TYPE, val)
  ELSE IF key = "message" THEN SetTagOn(s, ERROR_MSG, val)
  ELSE IF key = "stack" THEN SetTagOn(s, ERROR_STACK, val)
  ELSE s

\* lines 135-146: one key/value pair of a log_kv mapping
LogKvPair(s, key, val) ==
  IF key = "event" /\ val = "error" THEN SetTagOn([s EXCEPT !.error = 1], "error", One)
  ELSE IF key = "error" \/ key = "error.object" THEN SetTagOn(s, ERROR_TYPE, val)
  ELSE IF key = "message" THEN SetTagOn(s, ERROR_MSG, val)
  ELSE IF key = "stack" THEN SetTagOn(s, ERROR_STACK, val)
  ELSE s

\* line 134: the loop over key_values.items(), visited in the order given
RECURSIVE LogKvLoop(_, _, _, _)
LogKvLoop(s, key_values, order, i) ==
  IF i > Len(order) THEN s
  ELSE LogKvLoop(LogKvPair(s, order[i], key_values[order[i]]), key_values, order, i + 1)

log_kv(key_values, timestamp) ==
  /\ Called(<<"log_kv", key_values, timestamp>>)
  /\ result' = <<"ok", "self">>
  /\ log' = add_record(log, key_values, timestamp)
  /\ \E order \in Orders(DOMAIN key_values) :
       dd' = [dd EXCEPT ![dd_span] = LogKvLoop(@, key_values, order, 1)]
  /\ UNCHANGED <<finished, dd_span, context, ctxs>>

\* SpanLog.__getitem__ that takes a negative index for out of range
GetItem_NoNegative(records, key) ==
  IF key[1] = "int"
    THEN IF 0 <= key[2] /\ key[2] < Len(records) THEN <<"ok", records[key[2] + 1]>>
         ELSE <<"IndexError", None>>
    ELSE <<"TypeError", None>>

\* lines 36-40: SpanLog.__getitem__; a Python list counts a negative index from the back
GetItem(records, key) ==
  IF key[1] = "int"
    THEN IF 0 <= key[2] /\ key[2] < Len(records) THEN <<"ok", records[key[2] + 1]>>
         ELSE IF key[2] < 0 /\ -Len(records) <= key[2] THEN <<"ok", records[Len(records) + key[2] + 1]>>
         ELSE <<"IndexError", None>>
    ELSE <<"TypeError", None>>

__getitem__(key) ==
  /\ Called(<<"__getitem__", key>>)
  /\ result' = GetItem(log, key)
  /\ UNCHANGED spanVars

__len__ ==
  /\ Called(<<"__len__">>)
  /\ result' = <<"ok", Len(log)>>
  /\ UNCHANGED spanVars

__enter__ ==
  /\ Called(<<"__enter__">>)
  /\ result' = <<"ok", "self">>
  /\ UNCHANGED spanVars

\* Span.__exit__ without its closing self.finish()
exit_NoFinish(exc) ==
  /\ Called(<<"__exit__", exc>>)
  /\ result' = <<"ok", None>>
  /\ LET recorded == IF exc # None
                       THEN [dd EXCEPT ![dd_span] = DdSetExcInfo(@, exc)]
                       ELSE dd
     IN dd' = [recorded EXCEPT ![dd_span] = DdExit(@, exc)]
  /\ UNCHANGED <<finished, dd_span, context, log, ctxs>>

\* Span.__exit__ recording the exception after it has finished the span
exit_RecordsLast(exc) ==
  /\ Called(<<"__exit__", exc>>)
  /\ result' = <<"ok", None>>
  /\ LET exited == [dd EXCEPT ![dd_span] = DdExit(@, exc)]
         done == FinishDd(exited, finished, dd_span, NoTime)
     IN dd' = IF exc # None THEN [done EXCEPT ![dd_span] = DdSetExcInfo(@, exc)] ELSE done
  /\ finished' = TRUE
  /\ UNCHANGED <<dd_span, context, log, ctxs>>

\* lines 174-180
__exit__(exc) ==
  /\ Called(<<"__exit__", exc>>)
  /\ result' = <<"ok", None>>
  /\ LET recorded == IF exc # None
                       THEN [dd EXCEPT ![dd_span] = DdSetExcInfo(@, exc)]
                       ELSE dd
         exited == [recorded EXCEPT ![dd_span] = DdExit(@, exc)]
     IN dd' = FinishDd(exited, finished, dd_span, NoTime)
  /\ finished' = TRUE
  /\ UNCHANGED <<dd_span, context, log, ctxs>>

\* lines 188-189: every baggage item set as a tag, in the order given
RECURSIVE BaggageTags(_, _, _, _)
BaggageTags(s, baggage, order, i) ==
  IF i > Len(order) THEN s
  ELSE BaggageTags(SetTagOn(s, order[i], baggage[order[i]]), baggage, order, i + 1)

\* Span._add_dd_span starting the rebound Span afresh
add_dd_span_Unfinishes(d) ==
  /\ Called(<<"_add_dd_span", d>>)
  /\ result' = <<"ok", None>>
  /\ dd_span' = d
  /\ finished' = FALSE
  /\ ctxs' = [ctxs EXCEPT ![context].dd_context = dd[d].context]
  /\ \E order \in Orders(DOMAIN ctxs[context].baggage) :
       dd' = [dd EXCEPT ![d] = BaggageTags(@, ctxs[context].baggage, order, 1)]
  /\ UNCHANGED <<context, log>>

\* Span._add_dd_span that binds the span and leaves the baggage tags out
add_dd_span_NoBaggage(d) ==
  /\ Called(<<"_add_dd_span", d>>)
  /\ result' = <<"ok", None>>
  /\ dd_span' = d
  /\ ctxs' = [ctxs EXCEPT ![context].dd_context = dd[d].context]
  /\ UNCHANGED <<finished, context, log, dd>>

\* lines 185-189
_add_dd_span(d) ==
  /\ Called(<<"_add_dd_span", d>>)
  /\ result' = <<"ok", None>>
  /\ dd_span' = d
  /\ ctxs' = [ctxs EXCEPT ![context].dd_context = dd[d].context]
  /\ \E order \in Orders(DOMAIN ctxs[context].baggage) :
       dd' = [dd EXCEPT ![d] = BaggageTags(@, ctxs[context].baggage, order, 1)]
  /\ UNCHANGED <<finished, context, log>>

_dd_context ==
  /\ Called(<<"_dd_context">>)
  /\ result' = <<"ok", dd[dd_span].context>>
  /\ UNCHANGED spanVars

Next ==
  \/ \E t \in FinishTimes : finish(t)
  \/ \E k \in Keys, v \in Values : set_tag(k, v)
  \/ \E k \in ReadKeys : _get_tag(k)
  \/ \E n \in Names : set_operation_name(n)
  \/ \E k \in Keys, v \in Values : set_baggage_item(k, v)
  \/ \E k \in ReadKeys : get_baggage_item(k)
  \/ \E kv \in FewKeyValues, ts \in Timestamps : log_kv(kv, ts)
  \/ \E key \in IndexKeys : __getitem__(key)
  \/ __len__
  \/ __enter__
  \/ \E e \in ExcInfos : __exit__(e)
  \/ \E d \in DdIds : _add_dd_span(d)
  \/ _dd_context

Spec == Init /\ [][Next]_vars

(* ---------------- the parent Span beside the child Span ---------------- *)
\* lines 92-96 run on the parent Span: its own context reference and Datadog span
parent_set_baggage_item(key, value) ==
  /\ parent_context # 0
  /\ calls < MaxOps
  /\ calls' = calls + 1
  /\ lastOp' = <<"parent.set_baggage_item", key, value>>
  /\ result' = <<"ok", "parent">>
  /\ ctxs' = Append(ctxs, with_baggage_item(ctxs[parent_context], key, value))
  /\ dd' = [dd EXCEPT ![ParentDd] = SetTagOn(@, key, value)]
  /\ parent_context' = Len(ctxs) + 1
  /\ UNCHANGED <<finished, dd_span, context, log, threadVars>>

ParentNext ==
  \/ \E k \in Keys, v \in Values : set_baggage_item(k, v)
  \/ \E k \in Keys, v \in Values : parent_set_baggage_item(k, v)
  \/ \E k \in ReadKeys : get_baggage_item(k)
  \/ \E d \in DdIds : _add_dd_span(d)

ParentSpec == Init /\ [][ParentNext]_vars

(* ------------------ the Span called by several threads ----------------- *)
\* line 78: thread t enters set_baggage_item(key, value)
sb_call(t, key, value) ==
  /\ pc[t] = "idle"
  /\ arg' = [arg EXCEPT ![t] = <<"set_baggage_item", key, value>>]
  /\ pc' = [pc EXCEPT ![t] = "read"]
  /\ UNCHANGED <<spanVars, callerVars, read_ctx, new_ctx, ret, lock>>

\* line 92: self.context is read
sb_read(t) ==
  /\ pc[t] = "read"
  /\ read_ctx' = [read_ctx EXCEPT ![t] = context]
  /\ pc' = [pc EXCEPT ![t] = "build"]
  /\ UNCHANGED <<spanVars, callerVars, arg, new_ctx, ret, lock>>

\* with_baggage_item writing the baggage of the context read in place
sb_build_InPlace(t) ==
  /\ pc[t] = "build"
  /\ ctxs' = [ctxs EXCEPT ![read_ctx[t]] = with_baggage_item(@, arg[t][2], arg[t][3])]
  /\ new_ctx' = [new_ctx EXCEPT ![t] = read_ctx[t]]
  /\ pc' = [pc EXCEPT ![t] = "tag"]
  /\ UNCHANGED <<finished, dd_span, context, log, dd, callerVars, arg, read_ctx, ret, lock>>

\* line 92: with_baggage_item builds the new context from the one read
sb_build(t) ==
  /\ pc[t] = "build"
  /\ ctxs' = Append(ctxs, with_baggage_item(ctxs[read_ctx[t]], arg[t][2], arg[t][3]))
  /\ new_ctx' = [new_ctx EXCEPT ![t] = Len(ctxs) + 1]
  /\ pc' = [pc EXCEPT ![t] = "tag"]
  /\ UNCHANGED <<finished, dd_span, context, log, dd, callerVars, arg, read_ctx, ret, lock>>

\* line 93: the tag is mirrored
sb_tag(t) ==
  /\ pc[t] = "tag"
  /\ dd' = [dd EXCEPT ![dd_span] = SetTagOn(@, arg[t][2], arg[t][3])]
  /\ pc' = [pc EXCEPT ![t] = "acquire"]
  /\ UNCHANGED <<finished, dd_span, context, log, ctxs, callerVars, arg, read_ctx, new_ctx, ret, lock>>

\* line 94: the lock is taken
sb_acquire(t) ==
  /\ pc[t] = "acquire"
  /\ lock = 0
  /\ lock' = t
  /\ pc' = [pc EXCEPT ![t] = "swap"]
  /\ UNCHANGED <<spanVars, callerVars, arg, read_ctx, new_ctx, ret>>

\* line 95: the reference is swapped
sb_swap(t) ==
  /\ pc[t] = "swap"
  /\ context' = new_ctx[t]
  /\ pc' = [pc EXCEPT ![t] = "release"]
  /\ UNCHANGED <<finished, dd_span, log, ctxs, dd, callerVars, arg, read_ctx, new_ctx, ret, lock>>

\* lines 95-96: the lock is released and the call returns
sb_release(t) ==
  /\ pc[t] = "release"
  /\ lock' = 0
  /\ pc' = [pc EXCEPT ![t] = "done"]
  /\ UNCHANGED <<spanVars, callerVars, arg, read_ctx, new_ctx, ret>>

\* line 98: thread t enters get_baggage_item(key)
gb_call(t, key) ==
  /\ pc[t] = "idle"
  /\ arg' = [arg EXCEPT ![t] = <<"get_baggage_item", key>>]
  /\ pc' = [pc EXCEPT ![t] = "gb_read"]
  /\ UNCHANGED <<spanVars, callerVars, read_ctx, new_ctx, ret, lock>>

\* line 107: self.context is read, without the lock
gb_read(t) ==
  /\ pc[t] = "gb_read"
  /\ read_ctx' = [read_ctx EXCEPT ![t] = context]
  /\ pc' = [pc EXCEPT ![t] = "gb_get"]
  /\ UNCHANGED <<spanVars, callerVars, arg, new_ctx, ret, lock>>

\* line 107: the context read answers get_baggage_item
gb_get(t) ==
  /\ pc[t] = "gb_get"
  /\ ret' = [ret EXCEPT ![t] = ctx_get_baggage_item(ctxs[read_ctx[t]], arg[t][2])]
  /\ pc' = [pc EXCEPT ![t] = "done"]
  /\ UNCHANGED <<spanVars, callerVars, arg, read_ctx, new_ctx, lock>>

\* line 62: thread t enters finish(finish_time)
f_call(t, finish_time) ==
  /\ pc[t] = "idle"
  /\ arg' = [arg EXCEPT ![t] = <<"finish", finish_time>>]
  /\ pc' = [pc EXCEPT ![t] = "f_check"]
  /\ UNCHANGED <<spanVars, callerVars, read_ctx, new_ctx, ret, lock>>

\* lines 71-72: the finished flag is read
f_check(t) ==
  /\ pc[t] = "f_check"
  /\ pc' = [pc EXCEPT ![t] = IF finished THEN "done" ELSE "f_finish"]
  /\ UNCHANGED <<spanVars, callerVars, arg, read_ctx, new_ctx, ret, lock>>

\* line 75: the Datadog span's finish is called
f_finish(t) ==
  /\ pc[t] = "f_finish"
  /\ dd' = [dd EXCEPT ![dd_span] = DdFinish(@, arg[t][2])]
  /\ pc' = [pc EXCEPT ![t] = "f_set"]
  /\ UNCHANGED <<finished, dd_span, context, log, ctxs, callerVars, arg, read_ctx, new_ctx, ret, lock>>

\* line 76: the finished flag is set and the call returns
f_set(t) ==
  /\ pc[t] = "f_set"
  /\ finished' = TRUE
  /\ pc' = [pc EXCEPT ![t] = "done"]
  /\ UNCHANGED <<dd_span, context, log, ctxs, dd, callerVars, arg, read_ctx, new_ctx, ret, lock>>

ConcNext ==
  \E t \in Threads :
    \/ \E k \in ThreadKeys, v \in Values : sb_call(t, k, v)
    \/ sb_read(t)
    \/ sb_build(t)
    \/ sb_tag(t)
    \/ sb_acquire(t)
    \/ sb_swap(t)
    \/ sb_release(t)
    \/ \E k \in ThreadKeys : gb_call(t, k)
    \/ gb_read(t)
    \/ gb_get(t)
    \/ \E ft \in ThreadFinishTimes : f_call(t, ft)
    \/ f_check(t)
    \/ f_finish(t)
    \/ f_set(t)

ConcSpec == Init /\ [][ConcNext]_vars

(* ------------- set_baggage_item when the tag write fails --------------- *)
\* Span.set_baggage_item installing the new context before the tag write
set_baggage_item_SwapFirst(key, value) ==
  /\ Called(<<"set_baggage_item", key, value, "tag write raises">>)
  /\ result' = <<"raise", "tag write">>
  /\ ctxs' = Append(ctxs, with_baggage_item(ctxs[context], key, value))
  /\ context' = Len(ctxs) + 1
  /\ UNCHANGED <<finished, dd_span, log, dd>>

\* lines 92-93: the new context is built, then the Datadog span's tag write
\* raises inside self.set_tag; lines 94-96 are not reached and the exception
\* leaves set_baggage_item
set_baggage_item_raises(key, value) ==
  /\ Called(<<"set_baggage_item", key, value, "tag write raises">>)
  /\ result' = <<"raise", "tag write">>
  /\ ctxs' = Append(ctxs, with_baggage_item(ctxs[context], key, value))
  /\ UNCHANGED <<finished, dd_span, context, log, dd>>

FailNext ==
  \/ \E k \in Keys, v \in Values : set_baggage_item(k, v)
  \/ \E k \in Keys, v \in Values : set_baggage_item_raises(k, v)
  \/ \E k \in ReadKeys : get_baggage_item(k)
  \/ \E d \in DdIds : _add_dd_span(d)

FailSpec == Init /\ [][FailNext]_vars

\* log_kv with every mapping of at most two pairs and every timestamp
KvNext ==
  /\ calls < MaxKvOps
  /\ \/ \E kv \in KeyValues, ts \in Timestamps : log_kv(kv, ts)
     \/ finish(NoTime)
     \/ \E d \in DdIds : _add_dd_span(d)

KvSpec == Init /\ [][KvNext]_vars
(* ------------------------------- claims ------------------------------- *)
\* calls of the Datadog spans' finish made by Span.finish (line 75)
TotalFinishCalls == Len(dd[1].finish_calls) + Len(dd[2].finish_calls)
\* calls of the Datadog spans' __exit__ made by Span.__exit__ (line 179)
TotalExits == dd[1].exits + dd[2].exits
\* every invocation of a Datadog span's finish: by Span.finish, or by its own __exit__
TotalFinishInvocations == TotalFinishCalls + TotalExits

AllDone == \A t \in Threads : pc[t] = "done"
Writers == {t \in Threads : arg[t][1] = "set_baggage_item"}
DistinctKeys == \A t, u \in Threads : t # u => arg[t][2] # arg[u][2]

\* C1: when N >= 2 threads have each called set_baggage_item once with pairwise
\* distinct keys and all calls have returned, the Span's current baggage holds
\* every thread's key with its value (no update is lost).
C1_NoLostUpdate ==
  (AllDone /\ Writers = Threads /\ DistinctKeys) =>
    \A t \in Threads : ctx_get_baggage_item(ctxs[context], arg[t][2]) = arg[t][3]

\* C2: in a series of finish calls the Datadog span's finish is invoked exactly
\* once, by the first call and with that call's end time; a finish call on a
\* finished Span invokes nothing and changes no state.
C2_FinishOnce ==
  /\ [](TotalFinishCalls = IF finished THEN 1 ELSE 0)
  /\ [][lastOp'[1] = "finish" =>
         IF finished
           THEN UNCHANGED spanVars
           ELSE /\ finished'
                /\ dd' = [dd EXCEPT ![dd_span].finish_calls = <<lastOp'[2]>>,
                                    ![dd_span].finished = TRUE,
                                    ![dd_span].seen = Append(@, "finish")]
                /\ UNCHANGED <<dd_span, context, log, ctxs>>]_vars

\* C2 witness: a second finish call, with end time 0, has returned and the only
\* finish the Datadog span has seen is the first call's, with end time 5.
C2_Witness ==
  /\ lastOp[1] = "finish"
  /\ lastOp[2] = 0
  /\ calls = 2
  /\ dd[dd_span].finish_calls = <<5>>

\* C3 as stated: once the Span has been used as a scoped resource (one __exit__),
\* the Datadog span's finish has been invoked exactly once in total.
C3_OneInvocation == TotalExits = 1 => TotalFinishInvocations = 1

\* C3 amended: once the Span has been used as a scoped resource (one __exit__),
\* the Span is finished, Span.finish has called the Datadog span's finish exactly
\* once (in the block or on exit), and the Datadog span's own __exit__ has
\* invoked it once more: two invocations in total, the span finished by the first.
C3_FinishedOnceOnExit ==
  TotalExits = 1 =>
    /\ finished
    /\ TotalFinishCalls = 1
    /\ TotalFinishInvocations = 2
    /\ \A d \in DdIds : (dd[d].exits > 0 \/ dd[d].finish_calls # <<>>) => dd[d].finished

\* C3 witness: finish was called in the block with an end time, then the block
\* was left with a pending exception.
C3_Witness ==
  /\ lastOp[1] = "__exit__"
  /\ lastOp[2] = "E1"
  /\ TotalExits = 1
  /\ dd[dd_span].finish_calls = <<5>>
  /\ dd[dd_span].exc_info = "E1"

\* what the claims call recorded state: each Datadog span's name, span type,
\* resource, error flag and tags, the Span's log and the Span's baggage
Recorded ==
  <<[d \in DdIds |-> <<dd[d].name, dd[d].span_type, dd[d].resource, dd[d].error, dd[d].meta>>],
    log, ctxs[context].baggage>>

\* C4: once the Span is finished, no call of set_tag, set_operation_name, log_kv,
\* set_baggage_item or finish changes recorded state.
C4_InertAfterFinish ==
  [][(finished /\ lastOp'[1] \in {"set_tag", "set_operation_name", "log_kv",
                                   "set_baggage_item", "finish"})
       => Recorded' = Recorded]_vars

\* C5: the finished flag is false at creation, becomes true only through finish
\* or __exit__, and once true stays true under every operation.
C5_FinishedLatch ==
  /\ (calls = 0 => ~finished)
  /\ [][finished => finished']_vars
  /\ [][(~finished /\ finished') => lastOp'[1] \in {"finish", "__exit__"}]_vars

\* C5 witness: the Span was finished, then rebound to another Datadog span, and
\* is still finished.
C5_Witness ==
  /\ finished
  /\ lastOp[1] = "_add_dd_span"
  /\ dd_span = 2
  /\ dd[1].finished
\* C6: set_tag(key, value) performs exactly one write on the bound Datadog span:
\* the span-type key writes only span_type, the HTTP-URL and database-statement
\* keys write only resource, every other key writes only the generic tag; the
\* other destinations, the error flag, the log, the baggage and the finished
\* flag are unchanged.
C6_SetTagRouting ==
  [][lastOp'[1] = "set_tag" =>
       LET key == lastOp'[2]
           value == lastOp'[3]
           old == dd[dd_span]
           new == dd'[dd_span]
           toType == key = SPAN_TYPE
           toResource == key \in {HTTP_URL, DB_STATEMENT}
       IN /\ new.span_type = IF toType THEN value ELSE old.span_type
          /\ new.resource = IF toResource THEN value ELSE old.resource
          /\ new.meta = IF toType \/ toResource THEN old.meta ELSE Put(old.meta, key, value)
          /\ new.error = old.error /\ new.name = old.name /\ new.exc_info = old.exc_info
          /\ new.finished = old.finished /\ new.finish_calls = old.finish_calls
          /\ new.exits = old.exits /\ new.context = old.context
          /\ \A d \in DdIds \ {dd_span} : dd'[d] = dd[d]
          /\ UNCHANGED <<finished, dd_span, context, log, ctxs>>]_vars

\* C6 witness: set_tag with the HTTP-URL key has written the resource of a Datadog
\* span that holds a generic tag, and no generic tag for the HTTP-URL key.
C6_Witness ==
  /\ lastOp[1] = "set_tag"
  /\ lastOp[2] = HTTP_URL
  /\ dd[dd_span].resource = lastOp[3]
  /\ DOMAIN dd[dd_span].meta = {"k1"}
  /\ dd[dd_span].span_type = None

\* the keys of a mapping that a log_kv rule sends to the tag `tag`
RuleKeys(key_values, tag) ==
  {k \in DOMAIN key_values :
     \/ tag = "error" /\ k = "event" /\ key_values[k] = "error"
     \/ tag = ERROR_TYPE /\ k \in {"error", "error.object"}
     \/ tag = ERROR_MSG /\ k = "message"
     \/ tag = ERROR_STACK /\ k = "stack"}

\* C7: log_kv(mapping) changes the bound Datadog span by exactly the per-key rules:
\* ("event", "error") sets the error flag and the tag "error" to 1; "error" or
\* "error.object" sets the error-type tag to the value; "message" sets the
\* error-message tag; "stack" sets the error-stack tag; every other pair writes
\* nothing. (With both "error" and "error.object" the tag is one of the two values.)
C7_LogKvTranslation ==
  [][lastOp'[1] = "log_kv" =>
       LET key_values == lastOp'[2]
           old == dd[dd_span]
           new == dd'[dd_span]
           written == {tag \in {"error", ERROR_TYPE, ERROR_MSG, ERROR_STACK} :
                         RuleKeys(key_values, tag) # {}}
       IN /\ new.error = IF "error" \in written THEN 1 ELSE old.error
          /\ DOMAIN new.meta = DOMAIN old.meta \cup written
          /\ \A tag \in DOMAIN new.meta :
                IF tag \notin written THEN new.meta[tag] = old.meta[tag]
                ELSE IF tag = "error" THEN new.meta[tag] = One
                ELSE new.meta[tag] \in {key_values[k] : k \in RuleKeys(key_values, tag)}
          /\ new.name = old.name /\ new.span_type = old.span_type
          /\ new.resource = old.resource /\ new.exc_info = old.exc_info
          /\ new.finished = old.finished /\ new.finish_calls = old.finish_calls
          /\ new.exits = old.exits /\ new.context = old.context
          /\ \A d \in DdIds \ {dd_span} : dd'[d] = dd[d]]_vars

\* C7 witness: a log_kv call with ("event", "v1") and ("message", "v1") has set
\* the error-message tag and left the error flag and the "error" tag alone.
C7_Witness ==
  /\ lastOp[1] = "log_kv"
  /\ DOMAIN lastOp[2] = {"event", "message"}
  /\ lastOp[2]["event"] = "v1"
  /\ dd[dd_span].error = 0
  /\ DOMAIN dd[dd_span].meta = {ERROR_MSG}
  /\ dd[dd_span].meta[ERROR_MSG] = "v1"

\* C8: the log is append-only and ordered: a log_kv call appends one record
\* holding the mapping it was passed, unmodified, after the records already
\* there, and no other operation changes the log; so the log's length is the
\* number of log_kv calls and record i is the mapping of call i+1.
C8_LogAppendOnly ==
  [][IF lastOp'[1] = "log_kv"
       THEN /\ Len(log') = Len(log) + 1
            /\ SubSeq(log', 1, Len(log)) = log
            /\ log'[Len(log')].record = lastOp'[2]
       ELSE log' = log]_vars

\* C8 witness: two log_kv calls with different mappings, the first translated to
\* a tag and the second not, then another operation: both records are in place.
C8_Witness ==
  /\ Len(log) = 2
  /\ log[1].record = Put(EmptyDict, "event", "error")
  /\ log[2].record = Put(EmptyDict, "other", "v1")
  /\ lastOp[1] = "set_tag"

\* C9: indexing a SpanLog of length n with an integer i returns the record at
\* that position (0 <= i < n from the front, -n <= i < 0 from the back); indexing
\* with a key that is not an int fails with TypeError (the spec's
\* InvalidIndexKind) and leaves the log unchanged.
C9_LogIndexing ==
  [][lastOp'[1] = "__getitem__" =>
       LET key == lastOp'[2]
           n == Len(log)
       IN /\ log' = log
          /\ (key[1] = "int" /\ 0 <= key[2] /\ key[2] < n) =>
                (result'[1] = "ok" /\ result'[2] = log[key[2] + 1])
          /\ (key[1] = "int" /\ -n <= key[2] /\ key[2] < 0) =>
                (result'[1] = "ok" /\ result'[2] = log[n + key[2] + 1])
          /\ key[1] # "int" => result'[1] = "TypeError"]_vars

\* C9 witness: log[-1] has returned the last of two different records.
C9_Witness ==
  /\ lastOp[1] = "__getitem__"
  /\ lastOp[2] = <<"int", -1>>
  /\ Len(log) = 2
  /\ log[1] # log[2]
  /\ result[1] = "ok"
  /\ result[2] = log[2]

\* C10: baggage is copy-on-write: set_baggage_item(key, value) installs a new
\* context whose baggage is the previous baggage with key set to value (and the
\* same Datadog context), and every context that existed before the call is
\* exactly as it was.
C10_CopyOnWrite ==
  [][lastOp'[1] = "set_baggage_item" =>
       /\ context' \notin 1..Len(ctxs)
       /\ context' \in 1..Len(ctxs')
       /\ ctxs'[context'].baggage = Put(ctxs[context].baggage, lastOp'[2], lastOp'[3])
       /\ ctxs'[context'].dd_context = ctxs[context].dd_context
       /\ \A c \in 1..Len(ctxs) : ctxs'[c] = ctxs[c]]_vars

\* C10 witness: a Span with baggage {k1: v1} was given HTTP-URL = v2: the new
\* context holds both and the old one still holds only k1.
C10_Witness ==
  /\ lastOp[1] = "set_baggage_item"
  /\ lastOp[2] = HTTP_URL
  /\ context > 1
  /\ ctxs[context - 1].baggage = Put(EmptyDict, "k1", "v1")
  /\ ctxs[context].baggage = Put(Put(EmptyDict, "k1", "v1"), HTTP_URL, "v2")
\* C11: a Span created from a parent context starts with the parent's baggage
\* and the parent's Datadog context, in a context object of its own; afterwards
\* no set_baggage_item on the child changes the baggage of the parent's context
\* (the one it was created from, or the parent Span's current one), and none on
\* the parent Span changes the child's.
C11_ParentIndependence ==
  /\ (parent_context # 0 =>
        /\ context # parent_context
        /\ ctxs[context].baggage = ctxs[parent_context].baggage
        /\ ctxs[context].dd_context = ctxs[parent_context].dd_context)
  /\ [][lastOp'[1] = "set_baggage_item" =>
         /\ parent_context' = parent_context
         /\ parent_context # 0 =>
               /\ ctxs'[parent_context] = ctxs[parent_context]
               /\ ctxs'[1] = ctxs[1]]_vars
  /\ [][lastOp'[1] = "parent.set_baggage_item" =>
         /\ context' = context
         /\ ctxs'[context] = ctxs[context]]_vars

\* C11 witness: the child was created with the parent's {k1: v1}; the child then
\* set k1 to v2 and the parent Span set HTTP-URL: each sees only its own change.
C11_Witness ==
  /\ parent_context # 0
  /\ lastOp[1] = "parent.set_baggage_item"
  /\ ctxs[1].baggage = Put(EmptyDict, "k1", "v1")
  /\ ctxs[context].baggage = Put(EmptyDict, "k1", "v2")
  /\ ctxs[parent_context].baggage = Put(Put(EmptyDict, "k1", "v1"), HTTP_URL, "v1")
\* C12: a SpanContext is immutable after construction: no Span operation changes
\* the Datadog context reference or the baggage of an existing SpanContext object.
C12_ContextImmutable ==
  [][\A c \in 1..Len(ctxs) : ctxs'[c] = ctxs[c]]_vars

\* the calls of seen that finish a Datadog span
Finishing == {"finish", "__exit__"}

\* C13 as stated: after the scoped-resource exit the Span and its Datadog span
\* are finished; a pending exception has been recorded on the Datadog span before
\* any finish of it was invoked; with none pending no exception info is recorded.
C13_RecordedBeforeAnyFinish ==
  (lastOp[1] = "__exit__" /\ TotalExits = 1) =>
    LET s == dd[dd_span]
    IN /\ finished /\ s.finished
       /\ IF lastOp[2] # None
            THEN /\ s.exc_info = lastOp[2]
                 /\ \A i, j \in 1..Len(s.seen) :
                       (s.seen[i] = "set_exc_info" /\ s.seen[j] \in Finishing) => i < j
            ELSE s.exc_info = None

\* C13 amended: the scoped-resource exit leaves the Span and its Datadog span
\* finished; a pending exception is recorded on the Datadog span before the exit
\* calls the Datadog span's __exit__ and (on a Span not yet finished) its finish;
\* with none pending the exit records nothing. A finish called inside the block
\* has already been invoked when the exception is recorded.
C13_ExitRecordsThenFinishes ==
  [][lastOp'[1] = "__exit__" =>
       LET exc == lastOp'[2]
           old == dd[dd_span]
           new == dd'[dd_span]
       IN /\ finished' /\ new.finished
          /\ dd_span' = dd_span
          /\ new.seen = old.seen \o (IF exc # None THEN <<"set_exc_info">> ELSE <<>>)
                                 \o <<"__exit__">>
                                 \o (IF finished THEN <<>> ELSE <<"finish">>)
          /\ new.exc_info = IF exc # None THEN exc ELSE old.exc_info]_vars

\* C13 witness: an unfinished Span left its block with a pending exception.
C13_Witness ==
  /\ lastOp[1] = "__exit__"
  /\ lastOp[2] = "E1"
  /\ finished
  /\ dd[dd_span].exc_info = "E1"
  /\ dd[dd_span].seen = <<"set_exc_info", "__exit__", "finish">>
\* C14 as stated: after set_baggage_item(key, value) returns, the bound Datadog
\* span's generic tag for key equals value, for every key including the reserved
\* span-type, HTTP-URL and database-statement keys.
C14_AlwaysGenericTag ==
  (lastOp[1] = "set_baggage_item" /\ result[1] = "ok") =>
    DdGetTag(dd[dd_span], lastOp[2]) = lastOp[3]

\* C14 amended: set_baggage_item(key, value) mirrors the pair through set_tag:
\* for a key that is not reserved the generic tag for key equals value after the
\* call; the span-type key sets span_type and the HTTP-URL and database-statement
\* keys set resource instead, and no generic tag is written for them.
C14_MirroredThroughSetTag ==
  [][(lastOp'[1] = "set_baggage_item" /\ result'[1] = "ok") =>
       LET key == lastOp'[2]
           value == lastOp'[3]
           old == dd[dd_span]
           new == dd'[dd_span]
       IN /\ dd_span' = dd_span
          /\ IF key = SPAN_TYPE
               THEN new.span_type = value /\ new.meta = old.meta /\ new.resource = old.resource
               ELSE IF key \in {HTTP_URL, DB_STATEMENT}
               THEN new.resource = value /\ new.meta = old.meta /\ new.span_type = old.span_type
               ELSE /\ DdGetTag(new, key) = value
                    /\ new.meta = Put(old.meta, key, value)
                    /\ new.span_type = old.span_type /\ new.resource = old.resource]_vars

\* C14 witness: set_baggage_item with the HTTP-URL key on a Span whose baggage
\* key k1 is mirrored as a tag: the resource is set and only k1 is a generic tag.
C14_Witness ==
  /\ lastOp[1] = "set_baggage_item"
  /\ lastOp[2] = HTTP_URL
  /\ dd[dd_span].resource = lastOp[3]
  /\ DOMAIN dd[dd_span].meta = {"k1"}
  /\ dd[dd_span].meta["k1"] = ctx_get_baggage_item(ctxs[context], "k1")

\* The context a Span starts with, and the contexts set_baggage_item calls
\* have built so far.
InitCtx == IF parent_context = 0 THEN 1 ELSE 2
InitBaggage == IF parent_context = 0 THEN EmptyDict ELSE ctxs[parent_context].baggage
Built == {new_ctx[t] : t \in {u \in Threads : new_ctx[u] # 0}}
Readers == {t \in Threads : arg[t][1] = "get_baggage_item"}

\* C15: a reader running concurrently with set_baggage_item calls never sees a
\* partially updated context. In every state the Span's context is the initial
\* context or one built by a set_baggage_item call, the initial context still
\* holds the initial baggage, each built context is exactly the context its
\* writer read plus the writer's pair, and every get_baggage_item result is
\* the value of its key in one of those contexts.
C15_ReadersSeeCompleteContexts ==
  /\ context \in {InitCtx} \cup Built
  /\ ctxs[InitCtx].baggage = InitBaggage
  /\ \A t \in Threads : new_ctx[t] # 0 =>
       ctxs[new_ctx[t]] = with_baggage_item(ctxs[read_ctx[t]], arg[t][2], arg[t][3])
  /\ \A t \in Readers : pc[t] = "done" =>
       \E c \in {InitCtx} \cup Built : ret[t] = ctx_get_baggage_item(ctxs[c], arg[t][2])

\* A reader has returned a written value while the writer is still inside its
\* call, holding the lock.
C15_Witness ==
  \E t \in Readers, u \in Writers :
    /\ pc[t] = "done"
    /\ ret[t] = arg[u][3]
    /\ pc[u] = "release"

\* C16: _add_dd_span(d) rebinds the Span without losing baggage visibility.
\* After the step the Span's Datadog span is d, the Span's context refers to
\* d's context and holds the same baggage, and every baggage entry has been
\* applied to d by the set_tag routing (span.kind to the span type, http.url
\* and db.statement to the resource, any other key to a generic tag). Every
\* set_tag, log_kv and finish step leaves every Datadog span but the bound
\* one as it was.
C16_RebindKeepsBaggage ==
  [][/\ lastOp'[1] = "_add_dd_span" =>
          LET d == lastOp'[2]
              b == ctxs[context].baggage
          IN /\ dd_span' = d
             /\ ctxs'[context'].dd_context = dd'[d].context
             /\ ctxs'[context'].baggage = b
             /\ \A k \in DOMAIN b :
                  IF k = SPAN_TYPE THEN dd'[d].span_type = b[k]
                  ELSE IF k \in {HTTP_URL, DB_STATEMENT}
                    THEN dd'[d].resource \in {b[j] : j \in DOMAIN b \cap {HTTP_URL, DB_STATEMENT}}
                  ELSE DdGetTag(dd'[d], k) = b[k]
     /\ lastOp'[1] \in {"set_tag", "log_kv", "finish"} =>
          /\ dd_span' = dd_span
          /\ \A e \in AllDd \ {dd_span} : dd'[e] = dd[e]]_vars

\* The Span took http.url as baggage, was rebound to Datadog span 2, and a
\* later set_tag reached span 2 and not span 1.
C16_Witness ==
  /\ lastOp = <<"set_tag", "k1", "v2">>
  /\ dd_span = 2
  /\ ctx_get_baggage_item(ctxs[context], HTTP_URL) = "v1"
  /\ dd[2].resource = "v1"
  /\ DdGetTag(dd[2], "k1") = "v2"
  /\ DdGetTag(dd[1], "k1") = None

\* C17: the timestamp of an appended log record is the timestamp the caller
\* supplied, for every supplied value including 0, and is the clock reading
\* only when the caller omitted it.
C17_SuppliedTimestampKept ==
  lastOp[1] = "log_kv" =>
    log[Len(log)].timestamp = IF lastOp[3] = NoTime THEN TimeNow ELSE lastOp[3]

Finishers == {t \in Threads : arg[t][1] = "finish"}

\* C18: when two or more threads call finish on the same unfinished Span
\* concurrently, the Datadog span's finish is invoked at most once under every
\* interleaving of the flag check, the finish call and the flag assignment.
C18_ConcurrentFinishOnce ==
  Cardinality(Finishers) >= 2 => Len(dd[dd_span].finish_calls) <= 1

\* C19: when two threads concurrently call set_baggage_item with the same key
\* and different values and nothing else writes the tag, then once both calls
\* have returned the Datadog span's tag for the key equals the Span's baggage
\* value for the key.
C19_TagAgreesWithBaggage ==
  \A t, u \in Writers :
    (/\ Writers = {t, u}
     /\ pc[t] = "done" /\ pc[u] = "done"
     /\ arg[t][2] = arg[u][2]
     /\ arg[t][3] # arg[u][3])
    => DdGetTag(dd[dd_span], arg[t][2]) = ctx_get_baggage_item(ctxs[context], arg[t][2])

\* C20: if the Datadog span's tag write fails during set_baggage_item(key,
\* value), the failure reaches the caller and the Span's context is not
\* replaced: the Span holds the same context object, no existing context is
\* written, and the baggage is what it was before the call.
C20_FailedTagWriteKeepsContext ==
  [][(lastOp'[1] = "set_baggage_item" /\ Len(lastOp') = 4) =>
       /\ result'[1] = "raise"
       /\ context' = context
       /\ \A i \in 1..Len(ctxs) : ctxs'[i] = ctxs[i]
       /\ ctxs'[context'].baggage = ctxs[context].baggage]_vars

\* A set_baggage_item on a Span that already carries baggage has raised, and
\* the value it was given is not in the baggage.
C20_Witness ==
  /\ lastOp[1] = "set_baggage_item"
  /\ Len(lastOp) = 4
  /\ result[1] = "raise"
  /\ DOMAIN ctxs[context].baggage # {}
  /\ ctx_get_baggage_item(ctxs[context], lastOp[2]) # lastOp[3]

====
